---- MODULE Spec2Model ----
(***************************************************************************)
(* Model of the JSON-backed TODO store (todo_core.py), of the bank ledger  *)
(* (bank.py) and of the expense loader (expenses.py).                      *)
(*                                                                         *)
(* Python strings are sequences of one-character strings, so that strip,   *)
(* split, lower and strptime are computed character by character.  Python  *)
(* values whose type the code inspects (None / str / list / int) are       *)
(* tagged records [t, v].  The store file is a record [kind, tasks]:       *)
(*   kind = "absent"  the path does not exist                              *)
(*   kind = "empty"   the file exists and holds zero bytes                 *)
(*   kind = "invalid" the file holds text that is not JSON                 *)
(*   kind = "json"    the file holds the JSON array `tasks`                *)
(***************************************************************************)
EXTENDS Integers, Sequences, FiniteSets, TLC

VARIABLES
  file,     \* the store file at the path every call is given
  now,      \* the local clock datetime.now() reads
  last,     \* the call that ended last: operation and outcome
  issued,   \* the ids add_task has returned so far, in order
  nops,     \* number of calls that wrote the file
  procs,    \* uncoordinated callers: position and pending write of each
  commits,  \* the callers that have written, in the order of their writes
  account,  \* the BankAccount object of bank.py
  ledger,   \* the bank call that ended last: the account before it and its outcome
  csvfile,  \* the CSV file load_expenses is given: header and data rows
  loaded    \* the load_expenses call that ended last and its outcome

vars == <<file, now, last, issued, nops, procs, commits, account, ledger, csvfile, loaded>>

(***************************************************************************)
(* Bounds of the model.                                                    *)
(***************************************************************************)
MaxOps == 3
NProcs == 2

(***************************************************************************)
(* Python values.                                                          *)
(***************************************************************************)
PyNone == [t |-> "none", v |-> <<>>]
PyStr(s) == [t |-> "str", v |-> s]
PyList(l) == [t |-> "list", v |-> l]
PyInt(n) == [t |-> "int", v |-> <<n>>]

\* Exception kinds raised by the core.
NoExc == "none"
EmptyTitle == "ValueError: Title cannot be empty"
InvalidDate == "ValueError: Invalid date format"
InvalidTags == "ValueError: Tags must be a list of strings or comma-separated string"
JSONDecodeError == "JSONDecodeError"

(***************************************************************************)
(* str methods used by the code.                                           *)
(***************************************************************************)
IsSpace(c) == c = " "

RECURSIVE lstrip(_)
lstrip(s) ==
  IF s = <<>> THEN <<>>
  ELSE IF IsSpace(Head(s)) THEN lstrip(Tail(s)) ELSE s

RECURSIVE rstrip(_)
rstrip(s) ==
  IF s = <<>> THEN <<>>
  ELSE IF IsSpace(s[Len(s)]) THEN rstrip(SubSeq(s, 1, Len(s) - 1)) ELSE s

strip_leading_only(s) == lstrip(s)

strip(s) == rstrip(lstrip(s))

LowerChar(c) ==
  CASE c = "A" -> "a"
    [] c = "B" -> "b"
    [] OTHER -> c

lower(s) == [i \in 1..Len(s) |-> LowerChar(s[i])]

\* s.split(sep): the pieces of s between occurrences of the character sep.
RECURSIVE splitAcc(_, _, _)
splitAcc(s, sep, cur) ==
  IF s = <<>> THEN <<cur>>
  ELSE IF Head(s) = sep THEN <<cur>> \o splitAcc(Tail(s), sep, <<>>)
  ELSE splitAcc(Tail(s), sep, Append(cur, Head(s)))

split(s, sep) == splitAcc(s, sep, <<>>)

(***************************************************************************)
(* datetime.strptime(s, '%Y-%m-%d').  The format compiles to the regex     *)
(*   (\d\d\d\d)-(1[0-2]|0[1-9]|[1-9])-(3[01]|[12]\d|0[1-9]|[1-9]| [1-9])   *)
(* which must match the whole string; the fields must then name a date of  *)
(* the proleptic Gregorian calendar with year >= 1.                        *)
(***************************************************************************)
Digits == {"0", "1", "2", "3", "4", "5", "6", "7", "8", "9"}

DigitVal(c) ==
  CASE c = "0" -> 0 [] c = "1" -> 1 [] c = "2" -> 2 [] c = "3" -> 3
    [] c = "4" -> 4 [] c = "5" -> 5 [] c = "6" -> 6 [] c = "7" -> 7
    [] c = "8" -> 8 [] c = "9" -> 9 [] OTHER -> 0

AllDigits(s) == \A i \in 1..Len(s) : s[i] \in Digits

RECURSIVE NumVal(_)
NumVal(s) ==
  IF s = <<>> THEN 0
  ELSE NumVal(SubSeq(s, 1, Len(s) - 1)) * 10 + DigitVal(s[Len(s)])

MatchYear(s) == Len(s) = 4 /\ AllDigits(s)

MatchMonth(s) ==
  /\ Len(s) \in {1, 2}
  /\ AllDigits(s)
  /\ NumVal(s) \in 1..12

MatchDay(s) ==
  \/ /\ Len(s) \in {1, 2}
     /\ AllDigits(s)
     /\ NumVal(s) \in 1..31
  \/ /\ Len(s) = 2
     /\ s[1] = " "
     /\ s[2] \in Digits \ {"0"}

IsLeap(y) == (y % 4 = 0) /\ ((y % 100 # 0) \/ (y % 400 = 0))

DaysInMonth(y, m) ==
  IF m = 2 THEN (IF IsLeap(y) THEN 29 ELSE 28)
  ELSE IF m \in {4, 6, 9, 11} THEN 30 ELSE 31

strptime_ok(s) ==
  LET parts == split(s, "-") IN
  /\ Len(parts) = 3
  /\ MatchYear(parts[1])
  /\ MatchMonth(parts[2])
  /\ MatchDay(parts[3])
  /\ NumVal(parts[1]) >= 1
  /\ NumVal(lstrip(parts[3])) <= DaysInMonth(NumVal(parts[1]), NumVal(parts[2]))

(***************************************************************************)
(* Validators.                                                             *)
(***************************************************************************)
\* _validate_date: None passes; a string that strptime accepts is returned
\* unchanged; anything else raises.
_validate_date(date_str) ==
  IF date_str = PyNone THEN [exc |-> NoExc, v |-> PyNone]
  ELSE IF strptime_ok(date_str.v) THEN [exc |-> NoExc, v |-> date_str]
  ELSE [exc |-> InvalidDate, v |-> PyNone]

\* The list _validate_tags holds before the final list(set(tags)):
\* the pieces of a string stripped, the entries of a list as given,
\* empty strings removed.
SplitTags(tags) ==
  IF tags.t = "str"
    THEN LET pieces == split(tags.v, ",")
         IN  [i \in 1..Len(pieces) |-> strip(pieces[i])]
    ELSE tags.v

NonEmptyTags(l) == SelectSeq(l, LAMBDA tag : tag # <<>>)

SeqRange(s) == {s[i] : i \in 1..Len(s)}

\* All lists holding each element of S once: the orders list(set(...)) can
\* produce, the iteration order of a set of strings being unspecified.
Orderings(S) ==
  {s \in [1..Cardinality(S) -> S] : \A i, j \in 1..Cardinality(S) : s[i] = s[j] => i = j}

\* _validate_tags: exc, and the set of lists the call may return.
_validate_tags_keep_duplicates(tags) ==
  IF tags = PyNone THEN [exc |-> NoExc, outcomes |-> {<<>>}]
  ELSE IF tags.t \notin {"str", "list"} THEN [exc |-> InvalidTags, outcomes |-> {<<>>}]
  ELSE [exc |-> NoExc, outcomes |-> {NonEmptyTags(SplitTags(tags))}]

_validate_tags(tags) ==
  IF tags = PyNone THEN [exc |-> NoExc, outcomes |-> {<<>>}]
  ELSE IF tags.t \notin {"str", "list"} THEN [exc |-> InvalidTags, outcomes |-> {<<>>}]
  ELSE [exc |-> NoExc, outcomes |-> Orderings(SeqRange(NonEmptyTags(SplitTags(tags))))]

(***************************************************************************)
(* Persistence.                                                            *)
(***************************************************************************)
Absent == [kind |-> "absent", tasks |-> <<>>]
ZeroBytes == [kind |-> "empty", tasks |-> <<>>]
Garbage == [kind |-> "invalid", tasks |-> <<>>]
Json(tasks) == [kind |-> "json", tasks |-> tasks]

\* _read_tasks: [] for a missing path, json.load of the content otherwise;
\* json.load raises on content that is not JSON, zero bytes included.
_read_tasks(f) ==
  IF f.kind = "absent" THEN [exc |-> NoExc, tasks |-> <<>>]
  ELSE IF f.kind = "json" THEN [exc |-> NoExc, tasks |-> f.tasks]
  ELSE [exc |-> JSONDecodeError, tasks |-> <<>>]

\* _write_tasks: open(path, 'w') truncates whatever the path held (f) and
\* json.dump writes the array, so the file becomes the JSON array of the tasks.
_write_tasks_append(f, tasks) ==
  IF f.kind \in {"absent", "empty"} THEN Json(tasks) ELSE Garbage

_write_tasks(f, tasks) == Json(tasks)

(***************************************************************************)
(* Tasks and the outcome of one call.                                      *)
(*   exc     the exception the call raises, NoExc when it returns          *)
(*   retb    the boolean a complete/update/delete call returns             *)
(*   rett    the task(s) an add/list call returns                          *)
(*   reads   number of _read_tasks calls made                              *)
(*   write   whether the call reaches its _write_tasks                     *)
(*   mem     the in-memory task list when the call ends; it is what        *)
(*           _write_tasks is given when write is TRUE                      *)
(***************************************************************************)
Task(id, title, tags, due, created_at) ==
  [id |-> id, title |-> title, done |-> FALSE, tags |-> tags, due |-> due,
   created_at |-> created_at]

Ids(tasks) == {tasks[i].id : i \in 1..Len(tasks)}

MaxOf(S) == CHOOSE m \in S : \A x \in S : x <= m

Raise(e, n, mem) ==
  [exc |-> e, retb |-> FALSE, rett |-> <<>>, reads |-> n, write |-> FALSE, mem |-> mem]

ReturnBool(b, w, mem) ==
  [exc |-> NoExc, retb |-> b, rett |-> <<>>, reads |-> 1, write |-> w, mem |-> mem]

ReturnTasks(ts, w, mem) ==
  [exc |-> NoExc, retb |-> FALSE, rett |-> ts, reads |-> 1, write |-> w, mem |-> mem]

\* `not title or not title.strip()`
IsBlank(title) == title.t = "none" \/ strip(title.v) = <<>>

\* Index of the first task with the given id, 0 when there is none.
FirstIndex(tasks, task_id) ==
  IF task_id \in Ids(tasks)
    THEN CHOOSE i \in 1..Len(tasks) :
           /\ tasks[i].id = task_id
           /\ \A j \in 1..(i - 1) : tasks[j].id # task_id
    ELSE 0

(***************************************************************************)
(* add_task                                                                *)
(***************************************************************************)
NewIdByLen(tasks) == Len(tasks) + 1

NewIdNoInc(tasks) == IF tasks # <<>> THEN MaxOf(Ids(tasks)) ELSE 1

NewIdLast(tasks) == IF tasks # <<>> THEN tasks[Len(tasks)].id + 1 ELSE 1

NewId(tasks) == IF tasks # <<>> THEN MaxOf(Ids(tasks)) + 1 ELSE 1

\* tagOrder is the order list(set(tags)) yields, created_at the clock reading.
add_task_read_first(f, title, tags, due, tagOrder, created_at) ==
  LET rd == _read_tasks(f)
      vd == _validate_date(due)
      vt == _validate_tags(tags)
  IN  IF rd.exc # NoExc THEN Raise(rd.exc, 1, <<>>)
      ELSE IF IsBlank(title) THEN Raise(EmptyTitle, 1, <<>>)
      ELSE IF vd.exc # NoExc THEN Raise(vd.exc, 1, <<>>)
      ELSE IF vt.exc # NoExc THEN Raise(vt.exc, 1, <<>>)
      ELSE LET new_task == Task(NewId(rd.tasks), strip(title.v), tagOrder, vd.v, created_at)
           IN  ReturnTasks(<<new_task>>, TRUE, Append(rd.tasks, new_task))

add_task_returns_input(f, title, tags, due, tagOrder, created_at) ==
  IF IsBlank(title) THEN Raise(EmptyTitle, 0, <<>>)
  ELSE LET vd == _validate_date(due) IN
  IF vd.exc # NoExc THEN Raise(vd.exc, 0, <<>>)
  ELSE LET vt == _validate_tags(tags) IN
  IF vt.exc # NoExc THEN Raise(vt.exc, 0, <<>>)
  ELSE LET rd == _read_tasks(f) IN
  IF rd.exc # NoExc THEN Raise(rd.exc, 1, <<>>)
  ELSE LET new_id == NewId(rd.tasks)
       IN  ReturnTasks(<<Task(new_id, title.v, tagOrder, vd.v, created_at)>>, TRUE,
                       Append(rd.tasks, Task(new_id, strip(title.v), tagOrder, vd.v, created_at)))

add_task(f, title, tags, due, tagOrder, created_at) ==
  IF IsBlank(title) THEN Raise(EmptyTitle, 0, <<>>)
  ELSE LET vd == _validate_date(due) IN
  IF vd.exc # NoExc THEN Raise(vd.exc, 0, <<>>)
  ELSE LET vt == _validate_tags(tags) IN
  IF vt.exc # NoExc THEN Raise(vt.exc, 0, <<>>)
  ELSE LET rd == _read_tasks(f) IN
  IF rd.exc # NoExc THEN Raise(rd.exc, 1, <<>>)
  ELSE LET new_task == Task(NewId(rd.tasks), strip(title.v), tagOrder, vd.v, created_at)
       IN  ReturnTasks(<<new_task>>, TRUE, Append(rd.tasks, new_task))

(***************************************************************************)
(* complete_task                                                           *)
(***************************************************************************)
complete_task_all(f, task_id) ==
  LET rd == _read_tasks(f) IN
  IF rd.exc # NoExc THEN Raise(rd.exc, 1, <<>>)
  ELSE LET i == FirstIndex(rd.tasks, task_id) IN
  IF i = 0 THEN ReturnBool(FALSE, FALSE, rd.tasks)
  ELSE ReturnBool(TRUE, TRUE, [k \in 1..Len(rd.tasks) |-> [rd.tasks[k] EXCEPT !.done = TRUE]])

complete_task_write_always(f, task_id) ==
  LET rd == _read_tasks(f) IN
  IF rd.exc # NoExc THEN Raise(rd.exc, 1, <<>>)
  ELSE LET i == FirstIndex(rd.tasks, task_id) IN
  IF i = 0 THEN ReturnBool(FALSE, TRUE, rd.tasks)
  ELSE ReturnBool(TRUE, TRUE, [rd.tasks EXCEPT ![i].done = TRUE])

complete_task(f, task_id) ==
  LET rd == _read_tasks(f) IN
  IF rd.exc # NoExc THEN Raise(rd.exc, 1, <<>>)
  ELSE LET i == FirstIndex(rd.tasks, task_id) IN
  IF i = 0 THEN ReturnBool(FALSE, FALSE, rd.tasks)
  ELSE ReturnBool(TRUE, TRUE, [rd.tasks EXCEPT ![i].done = TRUE])

(***************************************************************************)
(* update_task.  fields = [title, tags, due]; a keyword that is not        *)
(* passed is Missing.                                                      *)
(***************************************************************************)
Missing == [t |-> "missing", v |-> <<>>]

\* The matched task after the fields are processed in the order title,
\* tags, due, stopping at the first failing one: the record is mutated in
\* memory field by field before the function raises or writes.
UpdateFieldsAnyKey(task, fields, tagOrder) ==
  LET t1 == IF fields.title = Missing \/ IsBlank(fields.title) THEN task
            ELSE [task EXCEPT !.title = strip(fields.title.v)]
      e1 == IF fields.title # Missing /\ IsBlank(fields.title) THEN EmptyTitle ELSE NoExc
      vt == IF fields.tags = Missing THEN [exc |-> NoExc, outcomes |-> {}]
            ELSE _validate_tags(fields.tags)
      t2 == IF e1 # NoExc \/ fields.tags = Missing \/ vt.exc # NoExc THEN t1
            ELSE [t1 EXCEPT !.tags = tagOrder]
      e2 == IF e1 # NoExc THEN e1 ELSE vt.exc
      vd == IF fields.due = Missing THEN [exc |-> NoExc, v |-> PyNone]
            ELSE _validate_date(fields.due)
      t3 == IF e2 # NoExc \/ fields.due = Missing \/ vd.exc # NoExc THEN t2
            ELSE [t2 EXCEPT !.due = vd.v]
      e3 == IF e2 # NoExc THEN e2 ELSE vd.exc
      t4 == IF e3 = NoExc /\ "created_at" \in DOMAIN fields
              THEN [t3 EXCEPT !.created_at = fields.created_at.v[1]]
              ELSE t3
  IN  [exc |-> e3, task |-> t4]

UpdateFields(task, fields, tagOrder) ==
  LET t1 == IF fields.title = Missing \/ IsBlank(fields.title) THEN task
            ELSE [task EXCEPT !.title = strip(fields.title.v)]
      e1 == IF fields.title # Missing /\ IsBlank(fields.title) THEN EmptyTitle ELSE NoExc
      vt == IF fields.tags = Missing THEN [exc |-> NoExc, outcomes |-> {}]
            ELSE _validate_tags(fields.tags)
      t2 == IF e1 # NoExc \/ fields.tags = Missing \/ vt.exc # NoExc THEN t1
            ELSE [t1 EXCEPT !.tags = tagOrder]
      e2 == IF e1 # NoExc THEN e1 ELSE vt.exc
      vd == IF fields.due = Missing THEN [exc |-> NoExc, v |-> PyNone]
            ELSE _validate_date(fields.due)
      t3 == IF e2 # NoExc \/ fields.due = Missing \/ vd.exc # NoExc THEN t2
            ELSE [t2 EXCEPT !.due = vd.v]
      e3 == IF e2 # NoExc THEN e2 ELSE vd.exc
  IN  [exc |-> e3, task |-> t3]

update_task_write_always(f, task_id, fields, tagOrder) ==
  LET rd == _read_tasks(f) IN
  IF rd.exc # NoExc THEN Raise(rd.exc, 1, <<>>)
  ELSE LET i == FirstIndex(rd.tasks, task_id) IN
  IF i = 0 THEN ReturnBool(FALSE, FALSE, rd.tasks)
  ELSE LET u == UpdateFields(rd.tasks[i], fields, tagOrder)
           mem == [rd.tasks EXCEPT ![i] = u.task]
       IN  IF u.exc # NoExc
             THEN [exc |-> u.exc, retb |-> FALSE, rett |-> <<>>, reads |-> 1,
                   write |-> TRUE, mem |-> mem]
             ELSE ReturnBool(TRUE, TRUE, mem)

update_task_validate_first(f, task_id, fields, tagOrder) ==
  LET rd == _read_tasks(f)
      blank == [id |-> 0, title |-> <<>>, done |-> FALSE, tags |-> <<>>, due |-> PyNone,
                created_at |-> 0]
      v == UpdateFields(blank, fields, tagOrder)
  IN
  IF v.exc # NoExc THEN Raise(v.exc, 0, <<>>)
  ELSE IF rd.exc # NoExc THEN Raise(rd.exc, 1, <<>>)
  ELSE LET i == FirstIndex(rd.tasks, task_id) IN
  IF i = 0 THEN ReturnBool(FALSE, FALSE, rd.tasks)
  ELSE ReturnBool(TRUE, TRUE,
                  [rd.tasks EXCEPT ![i] = UpdateFields(rd.tasks[i], fields, tagOrder).task])

update_task(f, task_id, fields, tagOrder) ==
  LET rd == _read_tasks(f) IN
  IF rd.exc # NoExc THEN Raise(rd.exc, 1, <<>>)
  ELSE LET i == FirstIndex(rd.tasks, task_id) IN
  IF i = 0 THEN ReturnBool(FALSE, FALSE, rd.tasks)
  ELSE LET u == UpdateFields(rd.tasks[i], fields, tagOrder)
           mem == [rd.tasks EXCEPT ![i] = u.task]
       IN  IF u.exc # NoExc THEN Raise(u.exc, 1, mem)
           ELSE ReturnBool(TRUE, TRUE, mem)

(***************************************************************************)
(* delete_task                                                             *)
(***************************************************************************)
RemoveAt(s, i) == SubSeq(s, 1, i - 1) \o SubSeq(s, i + 1, Len(s))

delete_task_keeps(f, task_id) ==
  LET rd == _read_tasks(f) IN
  IF rd.exc # NoExc THEN Raise(rd.exc, 1, <<>>)
  ELSE LET i == FirstIndex(rd.tasks, task_id) IN
  IF i = 0 THEN ReturnBool(FALSE, FALSE, rd.tasks)
  ELSE ReturnBool(TRUE, TRUE, rd.tasks)

delete_task_truncate(f, task_id) ==
  LET rd == _read_tasks(f) IN
  IF rd.exc # NoExc THEN Raise(rd.exc, 1, <<>>)
  ELSE LET i == FirstIndex(rd.tasks, task_id) IN
  IF i = 0 THEN ReturnBool(FALSE, FALSE, rd.tasks)
  ELSE ReturnBool(TRUE, TRUE, SubSeq(rd.tasks, 1, i - 1))

delete_task(f, task_id) ==
  LET rd == _read_tasks(f) IN
  IF rd.exc # NoExc THEN Raise(rd.exc, 1, <<>>)
  ELSE LET i == FirstIndex(rd.tasks, task_id) IN
  IF i = 0 THEN ReturnBool(FALSE, FALSE, rd.tasks)
  ELSE ReturnBool(TRUE, TRUE, RemoveAt(rd.tasks, i))

(***************************************************************************)
(* list_tasks                                                              *)
(***************************************************************************)
\* Code points of the characters the model uses: Python compares strings
\* by code point, position by position.
CharOrd(c) ==
  CASE c = " " -> 32 [] c = "," -> 44 [] c = "-" -> 45 [] c = "/" -> 47
    [] c = "A" -> 65 [] c = "B" -> 66 [] c = "a" -> 97 [] c = "b" -> 98
    [] c = "x" -> 120 [] c = "y" -> 121
    [] OTHER -> 48 + DigitVal(c)

RECURSIVE StrLess(_, _)
StrLess(a, b) ==
  IF b = <<>> THEN FALSE
  ELSE IF a = <<>> THEN TRUE
  ELSE IF CharOrd(Head(a)) # CharOrd(Head(b)) THEN CharOrd(Head(a)) < CharOrd(Head(b))
  ELSE StrLess(Tail(a), Tail(b))

StrLeq(a, b) == a = b \/ StrLess(a, b)

\* Less-than on the sort keys of list_tasks:
\*   due      (x['due'] is None, x['due'] or '', x['id'])
\*   created  (x['created_at'], x['id'])
\*   title    (x['title'].lower(), x['id'])
KeyLessNoId(sort_by, a, b) ==
  IF sort_by = "due" THEN
    IF (a.due = PyNone) # (b.due = PyNone) THEN b.due = PyNone
    ELSE StrLess(a.due.v, b.due.v)
  ELSE IF sort_by = "created" THEN a.created_at < b.created_at
  ELSE StrLess(lower(a.title), lower(b.title))

KeyLess(sort_by, a, b) ==
  IF sort_by = "due" THEN
    IF (a.due = PyNone) # (b.due = PyNone) THEN b.due = PyNone
    ELSE IF a.due.v # b.due.v THEN StrLess(a.due.v, b.due.v)
    ELSE a.id < b.id
  ELSE IF sort_by = "created" THEN
    IF a.created_at # b.created_at THEN a.created_at < b.created_at
    ELSE a.id < b.id
  ELSE
    IF lower(a.title) # lower(b.title) THEN StrLess(lower(a.title), lower(b.title))
    ELSE a.id < b.id

\* list.sort(key=...): a stable sort, here by insertion.
RECURSIVE InsertSorted(_, _, _)
InsertSorted(sort_by, x, s) ==
  IF s = <<>> THEN <<x>>
  ELSE IF KeyLess(sort_by, x, Head(s)) THEN <<x>> \o s
  ELSE <<Head(s)>> \o InsertSorted(sort_by, x, Tail(s))

RECURSIVE SortTasks(_, _)
SortTasks(sort_by, s) ==
  IF s = <<>> THEN <<>>
  ELSE InsertSorted(sort_by, s[Len(s)], SortTasks(sort_by, SubSeq(s, 1, Len(s) - 1)))

InvalidStatus == "ValueError: Status must be None, open, or done"
InvalidSortBy == "ValueError: sort_by must be due, created, or title"

\* status "None" stands for the Python None; tags <<>> for None or [].
FilterTasksAllTags(tasks, status, tags, due_before) ==
  LET f1 == IF status = "open" THEN SelectSeq(tasks, LAMBDA task : ~task.done)
            ELSE IF status = "done" THEN SelectSeq(tasks, LAMBDA task : task.done)
            ELSE tasks
      f2 == IF tags # <<>>
              THEN SelectSeq(f1, LAMBDA task : SeqRange(tags) \subseteq SeqRange(task.tags))
              ELSE f1
      f3 == IF due_before # PyNone
              THEN SelectSeq(f2, LAMBDA task :
                     /\ task.due # PyNone
                     /\ task.due.v # <<>>
                     /\ StrLeq(task.due.v, due_before.v))
              ELSE f2
  IN  f3

FilterTasks(tasks, status, tags, due_before) ==
  LET f1 == IF status = "open" THEN SelectSeq(tasks, LAMBDA task : ~task.done)
            ELSE IF status = "done" THEN SelectSeq(tasks, LAMBDA task : task.done)
            ELSE tasks
      f2 == IF tags # <<>>
              THEN SelectSeq(f1, LAMBDA task : SeqRange(tags) \cap SeqRange(task.tags) # {})
              ELSE f1
      f3 == IF due_before # PyNone
              THEN SelectSeq(f2, LAMBDA task :
                     /\ task.due # PyNone
                     /\ task.due.v # <<>>
                     /\ StrLeq(task.due.v, due_before.v))
              ELSE f2
  IN  f3

list_tasks_saving(f, status, tags, due_before, sort_by) ==
  IF status \notin {"None", "open", "done"} THEN Raise(InvalidStatus, 0, <<>>)
  ELSE IF sort_by \notin {"due", "created", "title"} THEN Raise(InvalidSortBy, 0, <<>>)
  ELSE LET vd == IF due_before # PyNone /\ due_before.v # <<>>
                   THEN _validate_date(due_before)
                   ELSE [exc |-> NoExc, v |-> PyNone] IN
  IF vd.exc # NoExc THEN Raise(vd.exc, 0, <<>>)
  ELSE LET rd == _read_tasks(f) IN
  IF rd.exc # NoExc THEN Raise(rd.exc, 1, <<>>)
  ELSE LET sorted == SortTasks(sort_by, FilterTasks(rd.tasks, status, tags, vd.v))
       IN  ReturnTasks(sorted, TRUE, sorted)

list_tasks(f, status, tags, due_before, sort_by) ==
  IF status \notin {"None", "open", "done"} THEN Raise(InvalidStatus, 0, <<>>)
  ELSE IF sort_by \notin {"due", "created", "title"} THEN Raise(InvalidSortBy, 0, <<>>)
  ELSE LET vd == IF due_before # PyNone /\ due_before.v # <<>>
                   THEN _validate_date(due_before)
                   ELSE [exc |-> NoExc, v |-> PyNone] IN
  IF vd.exc # NoExc THEN Raise(vd.exc, 0, <<>>)
  ELSE LET rd == _read_tasks(f) IN
  IF rd.exc # NoExc THEN Raise(rd.exc, 1, <<>>)
  ELSE LET sorted == SortTasks(sort_by, FilterTasks(rd.tasks, status, tags, vd.v))
           \* `filtered_tasks = tasks` aliases the list read, so the in-place
           \* sort reorders it unless a filter has rebound the name.
           rebound == status # "None" \/ tags # <<>> \/ vd.v # PyNone
       IN  ReturnTasks(sorted, FALSE, IF rebound THEN rd.tasks ELSE sorted)

(***************************************************************************)
(* Inputs.                                                                 *)
(***************************************************************************)
TitleEmpty == PyStr(<<>>)
TitleBlank == PyStr(<<" ">>)
TitlePadded == PyStr(<<" ", "a", " ">>)
TitleB == PyStr(<<"B">>)

TagsString == PyStr(<<"x", ",", ",", "x", ",", " ", "y">>)
TagsList == PyList(<< <<"y">>, <<>>, <<"y">> >>)
TagsWrongType == PyInt(123)

DuePadded == PyStr(<<"2", "0", "2", "5", "-", "0", "9", "-", "0", "5">>)
DueUnpadded == PyStr(<<"2", "0", "2", "5", "-", "9", "-", "5">>)
DueSlashes == PyStr(<<"2", "0", "2", "5", "/", "0", "9", "/", "0", "1">>)

TitleInputs == {TitleEmpty, TitleBlank, TitlePadded, TitleB}
TagInputs == {PyNone, TagsString, TagsList, TagsWrongType}
DueInputs == {PyNone, DuePadded, DueUnpadded, DueSlashes}

\* An id no task of the model ever has (the tests use 999).
NoSuchId == 999
IdInputs(f) == Ids(f.tasks) \cup {NoSuchId}

FieldInputs ==
  [title : {Missing, TitleEmpty, TitlePadded, TitleB},
   tags : {Missing, TagsString, TagsWrongType},
   due : {Missing, PyNone, DuePadded, DueSlashes}]

\* The orders a call may obtain from _validate_tags for the given tags.
TagOrders(tags) == IF tags = Missing THEN {<<>>} ELSE _validate_tags(tags).outcomes

\* The calls the caller of the model makes: for each operation one call
\* per outcome of its validation.
AddCalls ==
  { [title |-> TitlePadded, tags |-> TagsString, due |-> DuePadded],
    [title |-> TitleBlank, tags |-> PyNone, due |-> PyNone],
    [title |-> TitleB, tags |-> TagsWrongType, due |-> PyNone],
    [title |-> TitlePadded, tags |-> PyNone, due |-> DueSlashes],
    [title |-> TitleEmpty, tags |-> TagsWrongType, due |-> DueSlashes] }

UpdateCalls ==
  { [title |-> TitleB, tags |-> TagsList, due |-> PyNone],
    [title |-> TitleEmpty, tags |-> Missing, due |-> DuePadded],
    [title |-> TitlePadded, tags |-> TagsWrongType, due |-> Missing],
    [title |-> TitleB, tags |-> TagsString, due |-> DueSlashes] }

ListCalls ==
  { [status |-> "None", tags |-> <<>>, due_before |-> PyNone, sort_by |-> "due"],
    [status |-> "open", tags |-> << <<"x">> >>, due_before |-> DuePadded, sort_by |-> "title"],
    [status |-> "done", tags |-> <<>>, due_before |-> PyNone, sort_by |-> "created"],
    [status |-> "closed", tags |-> <<>>, due_before |-> PyNone, sort_by |-> "due"],
    [status |-> "None", tags |-> <<>>, due_before |-> PyNone, sort_by |-> "id"],
    [status |-> "None", tags |-> <<>>, due_before |-> DueSlashes, sort_by |-> "due"] }

StatusInputs == {"None", "open", "done", "closed"}
SortInputs == {"due", "created", "title", "id"}
TagFilterInputs == {<<>>, << <<"x">> >>}
DueBeforeInputs == {PyNone, DuePadded, DueSlashes}

\* A store as the tests install it: ids not in file order, one task done.
InitStore ==
  << [id |-> 2, title |-> <<"B">>, done |-> TRUE, tags |-> <<>>, due |-> PyNone,
      created_at |-> 0],
     [id |-> 1, title |-> <<"a">>, done |-> FALSE, tags |-> << <<"x">> >>,
      due |-> DuePadded, created_at |-> 1] >>

InitFiles == {Absent, ZeroBytes, Garbage, Json(<<>>), Json(InitStore)}

(***************************************************************************)
(* bank.py.  Amounts are whole numbers of cents, so Decimal arithmetic is   *)
(* exact integer arithmetic.  A transaction is the dict apply receives.    *)
(***************************************************************************)
InvalidType == "ValueError: Invalid transaction type"
InsufficientFunds == "ValueError: insufficient funds"

\* apply_all re-raises the ValueError of apply with a prefix.
TransactionFailed(e) == IF e = InvalidType
                          THEN "ValueError: Transaction failed: Invalid transaction type"
                          ELSE "ValueError: Transaction failed: insufficient funds"

BankAccount(balance) ==
  [initial_balance |-> balance, balance |-> balance, _transactions |-> <<>>]

apply_records_refused(acct, tx) ==
  IF tx.type \notin {"deposit", "withdraw"} THEN [exc |-> InvalidType, account |-> acct]
  ELSE IF tx.type = "deposit"
    THEN [exc |-> NoExc,
          account |-> [acct EXCEPT !.balance = @ + tx.amount,
                                   !._transactions = Append(@, tx)]]
  ELSE IF tx.amount > acct.balance
    THEN [exc |-> InsufficientFunds,
          account |-> [acct EXCEPT !._transactions = Append(@, tx)]]
  ELSE [exc |-> NoExc,
        account |-> [acct EXCEPT !.balance = @ - tx.amount,
                                 !._transactions = Append(@, tx)]]

apply(acct, tx) ==
  IF tx.type \notin {"deposit", "withdraw"} THEN [exc |-> InvalidType, account |-> acct]
  ELSE IF tx.type = "deposit"
    THEN [exc |-> NoExc,
          account |-> [acct EXCEPT !.balance = @ + tx.amount,
                                   !._transactions = Append(@, tx)]]
  ELSE IF tx.amount > acct.balance THEN [exc |-> InsufficientFunds, account |-> acct]
  ELSE [exc |-> NoExc,
        account |-> [acct EXCEPT !.balance = @ - tx.amount,
                                 !._transactions = Append(@, tx)]]

RECURSIVE Replay(_, _, _)
Replay(txs, i, running_balance) ==
  IF i > Len(txs) THEN <<>>
  ELSE LET rb == IF txs[i].type = "deposit" THEN running_balance + txs[i].amount
                 ELSE running_balance - txs[i].amount
       IN  <<[index |-> i, type |-> txs[i].type, amount |-> txs[i].amount,
              balance_after |-> rb, note |-> txs[i].note]>> \o Replay(txs, i + 1, rb)

statement_from_balance(acct) == Replay(acct._transactions, 1, acct.balance)

statement(acct) == Replay(acct._transactions, 1, acct.initial_balance)

apply_all_skip_failed(acct, txns) ==
  LET upto[i \in 0..Len(txns)] ==
        IF i = 0 THEN [exc |-> NoExc, account |-> acct]
        ELSE LET r == apply(upto[i - 1].account, txns[i]) IN
             [exc |-> IF r.exc # NoExc THEN TransactionFailed(r.exc) ELSE upto[i - 1].exc,
              account |-> r.account]
  IN  upto[Len(txns)]

RECURSIVE apply_all(_, _)
apply_all(acct, txns) ==
  IF txns = <<>> THEN [exc |-> NoExc, account |-> acct]
  ELSE LET r == apply(acct, Head(txns)) IN
       IF r.exc # NoExc THEN [exc |-> TransactionFailed(r.exc), account |-> r.account]
       ELSE apply_all(r.account, Tail(txns))

\* No bank call has ended yet.
NoCall == [op |-> "none", exc |-> NoExc, before |-> BankAccount(0), txns |-> <<>>,
           stmt |-> <<>>]

(***************************************************************************)
(* expenses.py.  A CSV file is its header (the column names) and its data  *)
(* rows (the cells of each line); cells are strings, amounts are whole     *)
(* numbers.  csv.DictReader gives each row as a dict over the header in    *)
(* which a column the line has no cell for holds None.                     *)
(***************************************************************************)
AttributeError == "AttributeError: 'NoneType' object has no attribute 'strip'"
ValueError == "ValueError"

DictRow(header, cells) ==
  [i \in 1..Len(header) |-> IF i <= Len(cells) THEN PyStr(cells[i]) ELSE PyNone]

\* Index of the column in the header, 0 when the header has no such column.
Column(header, field) ==
  IF \E i \in 1..Len(header) : header[i] = field
    THEN CHOOSE i \in 1..Len(header) : header[i] = field
    ELSE 0

IsNumber(s) ==
  /\ s # <<>>
  /\ \/ AllDigits(s)
     \/ s[1] = "-" /\ Len(s) > 1 /\ AllDigits(Tail(s))

\* float(s): surrounding whitespace is ignored, "nan" is a float.
float(s) ==
  LET t == strip(s) IN
  IF t = <<"n", "a", "n">> THEN [exc |-> NoExc, nan |-> TRUE, v |-> 0]
  ELSE IF ~IsNumber(t) THEN [exc |-> ValueError, nan |-> FALSE, v |-> 0]
  ELSE IF t[1] = "-" THEN [exc |-> NoExc, nan |-> FALSE, v |-> 0 - NumVal(Tail(t))]
  ELSE [exc |-> NoExc, nan |-> FALSE, v |-> NumVal(t)]

\* One pass of the loop body: "raise", "skip" or "keep" with the expense.
LoadRow(header, cells) ==
  LET row == DictRow(header, cells)
      c == Column(header, <<"category">>)
      a == Column(header, <<"amount">>)
      d == Column(header, <<"date">>)
      none == [amount |-> [nan |-> FALSE, v |-> 0], category |-> <<>>, date |-> <<>>]
  IN
  IF c = 0 THEN [does |-> "skip", exc |-> NoExc, expense |-> none]
  ELSE IF row[c] = PyNone THEN [does |-> "raise", exc |-> AttributeError, expense |-> none]
  ELSE IF strip(row[c].v) = <<>> THEN [does |-> "skip", exc |-> NoExc, expense |-> none]
  ELSE IF a = 0 THEN [does |-> "skip", exc |-> NoExc, expense |-> none]
  ELSE IF row[a] = PyNone THEN [does |-> "raise", exc |-> AttributeError, expense |-> none]
  ELSE IF strip(row[a].v) = <<>> THEN [does |-> "skip", exc |-> NoExc, expense |-> none]
  ELSE LET amount == float(row[a].v) IN
  IF amount.exc # NoExc THEN [does |-> "skip", exc |-> NoExc, expense |-> none]
  ELSE IF ~amount.nan /\ amount.v <= 0 THEN [does |-> "skip", exc |-> NoExc, expense |-> none]
  ELSE IF d # 0 /\ row[d] = PyNone
    THEN [does |-> "raise", exc |-> AttributeError, expense |-> none]
  ELSE [does |-> "keep", exc |-> NoExc,
        expense |-> [category |-> strip(row[c].v),
                     amount |-> [nan |-> amount.nan, v |-> amount.v],
                     date |-> IF d = 0 THEN <<>> ELSE strip(row[d].v)]]

RECURSIVE LoadRows(_, _, _, _)
LoadRows(header, rows, expenses, skipped) ==
  IF rows = <<>> THEN [exc |-> NoExc, expenses |-> expenses, skipped |-> skipped]
  ELSE LET step == LoadRow(header, Head(rows)) IN
       IF step.does = "raise" THEN [exc |-> step.exc, expenses |-> <<>>, skipped |-> 0]
       ELSE IF step.does = "skip" THEN LoadRows(header, Tail(rows), expenses, skipped + 1)
       ELSE LoadRows(header, Tail(rows), Append(expenses, step.expense), skipped)

load_expenses(f) == LoadRows(f.header, f.rows, <<>>, 0)

\* No CSV file is at hand, and no load_expenses call has ended yet.
NoCsv == [header |-> <<>>, rows |-> <<>>]
NotLoaded == [op |-> "none", exc |-> NoExc, expenses |-> <<>>, skipped |-> 0]

(***************************************************************************)
(* One caller issuing calls one after the other: each action is a whole    *)
(* call, from its validation to its return or raise.                       *)
(***************************************************************************)
Procs == 1..NProcs

Idle == [pc |-> "idle", op |-> "none", began |-> 0,
         res |-> Raise(NoExc, 0, <<>>)]

\* What `last` keeps of a call: argsok tells whether every argument of the
\* call passes the validation the operation applies to it.
Outcome(op, argsok, r) ==
  [op |-> op, argsok |-> argsok, exc |-> r.exc, retb |-> r.retb, reads |-> r.reads,
   wrote |-> r.write]

ValidAdd(title, tags, due) ==
  /\ ~IsBlank(title)
  /\ _validate_date(due).exc = NoExc
  /\ _validate_tags(tags).exc = NoExc

ValidFields(fields) ==
  /\ fields.title = Missing \/ ~IsBlank(fields.title)
  /\ fields.tags = Missing \/ _validate_tags(fields.tags).exc = NoExc
  /\ fields.due = Missing \/ _validate_date(fields.due).exc = NoExc

ValidList(status, due_before, sort_by) ==
  /\ status \in {"None", "open", "done"}
  /\ sort_by \in {"due", "created", "title"}
  /\ due_before = PyNone \/ due_before.v = <<>> \/ _validate_date(due_before).exc = NoExc

\* The file a call leaves behind.
Effect(f, r) == IF r.write THEN _write_tasks(f, r.mem) ELSE f

Init ==
  /\ file \in InitFiles
  /\ now = 1
  /\ last = Outcome("init", TRUE, Raise(NoExc, 0, <<>>))
  /\ issued = <<>>
  /\ nops = 0
  /\ procs = [p \in Procs |-> Idle]
  /\ commits = <<>>
  /\ account = BankAccount(0)
  /\ ledger = NoCall
  /\ csvfile = NoCsv
  /\ loaded = NotLoaded

Finish(op, argsok, r) ==
  /\ file' = Effect(file, r)
  /\ last' = Outcome(op, argsok, r)
  /\ nops' = IF r.write THEN nops + 1 ELSE nops
  /\ UNCHANGED <<procs, commits, account, ledger, csvfile, loaded>>

\* datetime.now() is read once per add_task that reaches it.
Add ==
  /\ nops < MaxOps
  /\ \E c \in AddCalls :
       \E tagOrder \in TagOrders(c.tags) :
         LET r == add_task(file, c.title, c.tags, c.due, tagOrder, now) IN
         /\ Finish("add", ValidAdd(c.title, c.tags, c.due), r)
         /\ now' = IF r.exc = NoExc THEN now + 1 ELSE now
         /\ issued' = IF r.exc = NoExc THEN Append(issued, r.rett[1].id) ELSE issued

Complete ==
  /\ nops < MaxOps
  /\ \E task_id \in IdInputs(file) :
       /\ Finish("complete", TRUE, complete_task(file, task_id))
       /\ UNCHANGED <<now, issued>>

Update ==
  /\ nops < MaxOps
  /\ \E task_id \in IdInputs(file), fields \in UpdateCalls :
       \E tagOrder \in TagOrders(fields.tags) :
         /\ Finish("update", ValidFields(fields), update_task(file, task_id, fields, tagOrder))
         /\ UNCHANGED <<now, issued>>

Delete ==
  /\ nops < MaxOps
  /\ \E task_id \in IdInputs(file) :
       /\ Finish("delete", TRUE, delete_task(file, task_id))
       /\ UNCHANGED <<now, issued>>

List ==
  /\ nops < MaxOps
  /\ \E c \in ListCalls :
       /\ Finish("list", ValidList(c.status, c.due_before, c.sort_by),
                 list_tasks(file, c.status, c.tags, c.due_before, c.sort_by))
       /\ UNCHANGED <<now, issued>>

Next == Add \/ Complete \/ Update \/ Delete \/ List

Spec == Init /\ [][Next]_vars

(***************************************************************************)
(* Uncoordinated callers.  A call has no suspension point of its own, but  *)
(* nothing orders the file accesses of two callers: between the            *)
(* _read_tasks and the _write_tasks of one call another caller may read    *)
(* or write the same path.  Begin runs a call up to its _write_tasks (or   *)
(* to its end when it never writes), Commit performs the pending write.    *)
(***************************************************************************)
Started(op, r) ==
  [pc |-> IF r.write THEN "write" ELSE "done", op |-> op, began |-> Len(commits),
   res |-> r]

BeginAdd(p) ==
  /\ procs[p].pc = "idle"
  /\ \E c \in AddCalls :
       \E tagOrder \in TagOrders(c.tags) :
         LET r == add_task(file, c.title, c.tags, c.due, tagOrder, now) IN
         /\ procs' = [procs EXCEPT ![p] = Started("add", r)]
         /\ now' = IF r.exc = NoExc THEN now + 1 ELSE now
  /\ UNCHANGED <<file, last, issued, nops, commits, account, ledger, csvfile, loaded>>

BeginComplete(p) ==
  /\ procs[p].pc = "idle"
  /\ \E task_id \in IdInputs(file) :
       procs' = [procs EXCEPT ![p] = Started("complete", complete_task(file, task_id))]
  /\ UNCHANGED <<file, now, last, issued, nops, commits, account, ledger, csvfile, loaded>>

BeginUpdate(p) ==
  /\ procs[p].pc = "idle"
  /\ \E task_id \in IdInputs(file), fields \in UpdateCalls :
       \E tagOrder \in TagOrders(fields.tags) :
         procs' = [procs EXCEPT ![p] =
                     Started("update", update_task(file, task_id, fields, tagOrder))]
  /\ UNCHANGED <<file, now, last, issued, nops, commits, account, ledger, csvfile, loaded>>

BeginDelete(p) ==
  /\ procs[p].pc = "idle"
  /\ \E task_id \in IdInputs(file) :
       procs' = [procs EXCEPT ![p] = Started("delete", delete_task(file, task_id))]
  /\ UNCHANGED <<file, now, last, issued, nops, commits, account, ledger, csvfile, loaded>>

Commit(p) ==
  /\ procs[p].pc = "write"
  /\ file' = _write_tasks(file, procs[p].res.mem)
  /\ procs' = [procs EXCEPT ![p].pc = "done"]
  /\ commits' = Append(commits, p)
  /\ UNCHANGED <<now, last, issued, nops, account, ledger, csvfile, loaded>>

RaceNext ==
  \E p \in Procs :
    \/ BeginAdd(p)
    \/ BeginComplete(p)
    \/ BeginUpdate(p)
    \/ BeginDelete(p)
    \/ Commit(p)

SpecRace == Init /\ [][RaceNext]_vars

(***************************************************************************)
(* Uncoordinated callers on a store that holds tasks, each call keeping    *)
(* the id it was given: a call reads the file when it begins and writes    *)
(* the list it computed when it commits.                                   *)
(***************************************************************************)
StartedOn(op, r, task_id) ==
  [pc |-> IF r.write THEN "write" ELSE "done", op |-> op, began |-> Len(commits),
   res |-> r, task_id |-> task_id]

InitIds ==
  /\ file = Json(InitStore)
  /\ now = 1
  /\ last = Outcome("init", TRUE, Raise(NoExc, 0, <<>>))
  /\ issued = <<>>
  /\ nops = 0
  /\ procs = [p \in Procs |-> Idle]
  /\ commits = <<>>
  /\ account = BankAccount(0)
  /\ ledger = NoCall
  /\ csvfile = NoCsv
  /\ loaded = NotLoaded

BeginCompleteOf(p) ==
  /\ procs[p].pc = "idle"
  /\ \E task_id \in IdInputs(file) :
       procs' = [procs EXCEPT ![p] =
                   StartedOn("complete", complete_task(file, task_id), task_id)]
  /\ UNCHANGED <<file, now, last, issued, nops, commits, account, ledger, csvfile, loaded>>

BeginUpdateOf(p) ==
  /\ procs[p].pc = "idle"
  /\ \E task_id \in IdInputs(file), fields \in UpdateCalls :
       \E tagOrder \in TagOrders(fields.tags) :
         procs' = [procs EXCEPT ![p] =
                     StartedOn("update", update_task(file, task_id, fields, tagOrder),
                               task_id)]
  /\ UNCHANGED <<file, now, last, issued, nops, commits, account, ledger, csvfile, loaded>>

BeginDeleteOf(p) ==
  /\ procs[p].pc = "idle"
  /\ \E task_id \in IdInputs(file) :
       procs' = [procs EXCEPT ![p] =
                   StartedOn("delete", delete_task(file, task_id), task_id)]
  /\ UNCHANGED <<file, now, last, issued, nops, commits, account, ledger, csvfile, loaded>>

IdsNext ==
  \E p \in Procs :
    \/ BeginAdd(p)
    \/ BeginCompleteOf(p)
    \/ BeginUpdateOf(p)
    \/ BeginDeleteOf(p)
    \/ Commit(p)

SpecIds == InitIds /\ [][IdsNext]_vars

(***************************************************************************)
(* list_tasks on stores of any content and order.  The file is whatever    *)
(* was installed at the path: up to MaxListLen of the tasks below, in any  *)
(* order, with titles equal up to case, equal due dates, equal creation    *)
(* times and tasks without a due date.                                     *)
(***************************************************************************)
MaxListLen == 3

DueLater == PyStr(<<"2", "0", "2", "5", "-", "1", "0", "-", "0", "1">>)
DueEmpty == PyStr(<<>>)

ListPool ==
  { [id |-> 1, title |-> <<"b">>, done |-> FALSE, tags |-> << <<"x">> >>,
     due |-> DuePadded, created_at |-> 1],
    [id |-> 2, title |-> <<"B">>, done |-> TRUE, tags |-> <<>>,
     due |-> PyNone, created_at |-> 1],
    [id |-> 3, title |-> <<"a">>, done |-> FALSE, tags |-> << <<"y">>, <<"x">> >>,
     due |-> DuePadded, created_at |-> 0],
    [id |-> 4, title |-> <<"B">>, done |-> TRUE, tags |-> << <<"y">> >>,
     due |-> PyNone, created_at |-> 2],
    [id |-> 5, title |-> <<"a">>, done |-> FALSE, tags |-> << <<"x">> >>,
     due |-> DueUnpadded, created_at |-> 2] }

ListStores ==
  {s \in UNION {[1..n -> ListPool] : n \in 0..MaxListLen} :
     \A i, j \in 1..Len(s) : s[i] = s[j] => i = j}

ListTagFilters == {<<>>, << <<"x">> >>, << <<"x">>, <<"z">> >>, << <<"z">> >>}
ListDueBefore == {PyNone, DueEmpty, DuePadded, DueLater, DueSlashes}

InitList ==
  /\ file \in {Json(s) : s \in ListStores}
  /\ now = 1
  /\ last = Outcome("init", TRUE, Raise(NoExc, 0, <<>>))
  /\ issued = <<>>
  /\ nops = 0
  /\ procs = [p \in Procs |-> Idle]
  /\ commits = <<>>
  /\ account = BankAccount(0)
  /\ ledger = NoCall
  /\ csvfile = NoCsv
  /\ loaded = NotLoaded

ListAny ==
  \E status \in StatusInputs, tags \in ListTagFilters,
     due_before \in ListDueBefore, sort_by \in SortInputs :
    /\ Finish("list", ValidList(status, due_before, sort_by),
              list_tasks(file, status, tags, due_before, sort_by))
    /\ UNCHANGED <<now, issued>>

SpecList == InitList /\ [][ListAny]_vars

(***************************************************************************)
(* One caller passing tags and due dates of every shape the validators     *)
(* accept or refuse, to add_task and update_task, on a store that starts   *)
(* absent.                                                                 *)
(***************************************************************************)
DueSpaceDay == PyStr(<<"2", "0", "2", "5", "-", "0", "9", "-", " ", "5">>)
DueFeb30 == PyStr(<<"2", "0", "2", "5", "-", "0", "2", "-", "3", "0">>)
DueMonth13 == PyStr(<<"2", "0", "2", "5", "-", "1", "3", "-", "0", "1">>)
TagsBlankEntry == PyList(<< <<" ">>, <<"y">> >>)

FieldCalls ==
  { [tags |-> TagsString, due |-> DueUnpadded],
    [tags |-> TagsBlankEntry, due |-> DuePadded],
    [tags |-> PyNone, due |-> DueSpaceDay],
    [tags |-> TagsList, due |-> PyNone],
    [tags |-> TagsWrongType, due |-> DuePadded],
    [tags |-> PyNone, due |-> DueSlashes],
    [tags |-> PyNone, due |-> DueFeb30],
    [tags |-> TagsList, due |-> DueMonth13] }

InitFields ==
  /\ file = Absent
  /\ now = 1
  /\ last = Outcome("init", TRUE, Raise(NoExc, 0, <<>>))
  /\ issued = <<>>
  /\ nops = 0
  /\ procs = [p \in Procs |-> Idle]
  /\ commits = <<>>
  /\ account = BankAccount(0)
  /\ ledger = NoCall
  /\ csvfile = NoCsv
  /\ loaded = NotLoaded

AddFields ==
  /\ nops < MaxOps
  /\ \E c \in FieldCalls :
       \E tagOrder \in TagOrders(c.tags) :
         LET r == add_task(file, TitleB, c.tags, c.due, tagOrder, now) IN
         /\ Finish("add", ValidAdd(TitleB, c.tags, c.due), r)
         /\ now' = IF r.exc = NoExc THEN now + 1 ELSE now
         /\ issued' = IF r.exc = NoExc THEN Append(issued, r.rett[1].id) ELSE issued

UpdateFieldsOf ==
  /\ nops < MaxOps
  /\ \E task_id \in IdInputs(file), c \in FieldCalls :
       \E tagOrder \in TagOrders(c.tags) :
         LET fields == [title |-> Missing, tags |-> c.tags, due |-> c.due] IN
         /\ Finish("update", ValidFields(fields), update_task(file, task_id, fields, tagOrder))
         /\ UNCHANGED <<now, issued>>

FieldsNext == AddFields \/ UpdateFieldsOf

SpecFields == InitFields /\ [][FieldsNext]_vars

(***************************************************************************)
(* One caller whose update_task calls pass keyword arguments beyond title, *)
(* tags and due: **fields takes any keyword, the loop body reads three.    *)
(***************************************************************************)
PyTrue == [t |-> "bool", v |-> <<>>]

KwFields ==
  [title : {Missing, TitleB},
   tags : {Missing},
   due : {Missing, DuePadded},
   id : {Missing, PyInt(7)},
   created_at : {PyInt(9)},
   done : {PyTrue}]

UpdateKw ==
  /\ nops < MaxOps
  /\ \E task_id \in IdInputs(file), fields \in KwFields :
       /\ Finish("update", ValidFields(fields), update_task(file, task_id, fields, <<>>))
       /\ UNCHANGED <<now, issued>>

KwNext == Add \/ Complete \/ UpdateKw

SpecKw == Init /\ [][KwNext]_vars

(***************************************************************************)
(* One caller completing and deleting tasks of a store of any content and  *)
(* order with unique ids.                                                  *)
(***************************************************************************)
FrameNext == Complete \/ Delete

SpecFrame == InitList /\ [][FrameNext]_vars

(***************************************************************************)
(* One holder of a BankAccount calling apply, apply_all and statement.     *)
(* The account is opened with one of InitialBalances; a call is made while *)
(* the history has room for the transactions it carries.                   *)
(***************************************************************************)
MaxTx == 2
MaxBatch == 2

TxTypes == {"deposit", "withdraw", "transfer"}
TxAmounts == {-50, 30, 100}
Txs == [type : TxTypes, amount : TxAmounts, note : {"n"}]
TxLists == UNION {[1..n -> Txs] : n \in 0..MaxBatch}
InitialBalances == {0, 100}

InitBank ==
  /\ file = Absent
  /\ now = 1
  /\ last = Outcome("init", TRUE, Raise(NoExc, 0, <<>>))
  /\ issued = <<>>
  /\ nops = 0
  /\ procs = [p \in Procs |-> Idle]
  /\ commits = <<>>
  /\ account \in {BankAccount(b) : b \in InitialBalances}
  /\ ledger = NoCall
  /\ csvfile = NoCsv
  /\ loaded = NotLoaded

Apply ==
  /\ Len(account._transactions) < MaxTx
  /\ \E tx \in Txs :
       LET r == apply(account, tx) IN
       /\ account' = r.account
       /\ ledger' = [op |-> "apply", exc |-> r.exc, before |-> account, txns |-> <<tx>>,
                     stmt |-> <<>>]
  /\ UNCHANGED <<file, now, last, issued, nops, procs, commits, csvfile, loaded>>

ApplyAll ==
  /\ \E txns \in TxLists :
       /\ Len(account._transactions) + Len(txns) <= MaxTx
       /\ LET r == apply_all(account, txns) IN
          /\ account' = r.account
          /\ ledger' = [op |-> "apply_all", exc |-> r.exc, before |-> account,
                        txns |-> txns, stmt |-> <<>>]
  /\ UNCHANGED <<file, now, last, issued, nops, procs, commits, csvfile, loaded>>

Statement ==
  /\ ledger' = [op |-> "statement", exc |-> NoExc, before |-> account, txns |-> <<>>,
                stmt |-> statement(account)]
  /\ UNCHANGED <<file, now, last, issued, nops, procs, commits, account, csvfile, loaded>>

BankNext == Apply \/ ApplyAll \/ Statement

SpecBank == InitBank /\ [][BankNext]_vars

(***************************************************************************)
(* One caller loading a readable CSV file with a header and up to MaxRows  *)
(* data rows.  A row has a category, then an amount, then a date, and may  *)
(* end early.                                                              *)
(***************************************************************************)
MaxRows == 2

Headers ==
  { << <<"category">>, <<"amount">>, <<"date">> >>,
    << <<"category">>, <<"date">> >> }
CategoryCells == {<<"f">>, <<" ">>}
AmountCells == {<<"7">>, <<"0">>, <<"-", "5">>, <<"x">>, <<>>, <<"n", "a", "n">>}
DateCells == {<<"d">>}

CsvRows ==
  {<<c>> : c \in CategoryCells}
    \cup {<<c, a>> : c \in CategoryCells, a \in AmountCells}
    \cup {<<c, a, d>> : c \in CategoryCells, a \in AmountCells, d \in DateCells}

InitCsv ==
  /\ file = Absent
  /\ now = 1
  /\ last = Outcome("init", TRUE, Raise(NoExc, 0, <<>>))
  /\ issued = <<>>
  /\ nops = 0
  /\ procs = [p \in Procs |-> Idle]
  /\ commits = <<>>
  /\ account = BankAccount(0)
  /\ ledger = NoCall
  /\ csvfile \in {[header |-> h, rows |-> rows] :
                    h \in Headers, rows \in UNION {[1..n -> CsvRows] : n \in 0..MaxRows}}
  /\ loaded = NotLoaded

LoadExpenses ==
  /\ loaded.op = "none"
  /\ LET r == load_expenses(csvfile) IN
     loaded' = [op |-> "load", exc |-> r.exc, expenses |-> r.expenses,
                skipped |-> r.skipped]
  /\ UNCHANGED <<file, now, last, issued, nops, procs, commits, account, ledger, csvfile>>

SpecCsv == InitCsv /\ [][LoadExpenses]_vars

(***************************************************************************)
(* Properties.  Where a property speaks of a call "on every store", it is  *)
(* stated of the operation applied, with every input of the sets above,    *)
(* to the file of every reachable state.                                   *)
(***************************************************************************)
Readable(f) == f.kind \in {"absent", "json"}

ValidationErrors == {EmptyTitle, InvalidDate, InvalidTags}

\* C1: starting from an absent file or one with pairwise distinct ids, after
\* any sequence of add, complete, update and delete calls the tasks in the
\* store file have pairwise distinct ids.
C1_UniqueIds ==
  \A i, j \in 1..Len(file.tasks) : file.tasks[i].id = file.tasks[j].id => i = j

\* An add has succeeded after earlier writes and the store holds several tasks.
C1_Witness ==
  /\ last.op = "add"
  /\ last.exc = NoExc
  /\ nops >= 2
  /\ Len(file.tasks) >= 2
  /\ Len(issued) >= 2

C3_IssuedIncreasing ==
  \A i, j \in 1..Len(issued) : i < j => issued[i] < issued[j]

\* C3 amended: every id add_task assigns is strictly greater than every id
\* the store holds at the time of the call.
C3_NewIdAboveStored ==
  [][issued' # issued =>
       /\ Len(issued') = Len(issued) + 1
       /\ \A id \in Ids(file.tasks) : issued'[Len(issued')] > id]_vars

\* An add has returned an id that is not above the one returned before it.
C3_Witness ==
  /\ Len(issued) >= 2
  /\ issued[Len(issued)] <= issued[Len(issued) - 1]
  /\ last.op = "add"

\* C4: when the task id exists and some supplied field of update_task
\* fails validation, whichever it is and whatever the other fields are,
\* the call raises and the store file is what it was before the call.
C4_UpdateAllOrNothing ==
  /\ \A task_id \in Ids(file.tasks), fields \in FieldInputs :
       \A tagOrder \in TagOrders(fields.tags) :
         LET r == update_task(file, task_id, fields, tagOrder) IN
         (Readable(file) /\ ~ValidFields(fields)) =>
           /\ r.exc \in ValidationErrors
           /\ ~r.write
           /\ Effect(file, r) = file
  /\ (last.op = "update" /\ last.exc # NoExc) => ~last.wrote

\* An update raised on its due after its title and tags had been accepted.
C4_Witness ==
  /\ last.op = "update"
  /\ last.exc = InvalidDate
  /\ ~last.wrote
  /\ file.kind = "json"
  /\ \E i \in 1..Len(file.tasks) : file.tasks[i].title = <<"a">>

\* C5 as stated: update_task with an empty or whitespace-only title raises
\* EmptyTitle and writes nothing for every task id, whether or not a task
\* has that id; likewise a malformed due or wrongly typed tags raises.
C5_UpdateAlwaysValidates ==
  (last.op = "update" /\ ~last.argsok /\ Readable(file)) =>
    (last.exc \in ValidationErrors /\ ~last.wrote)

\* The error the fields raise: that of the first failing one, in the order
\* title, tags, due.
FirstError(fields) ==
  IF fields.title # Missing /\ IsBlank(fields.title) THEN EmptyTitle
  ELSE IF fields.tags # Missing /\ _validate_tags(fields.tags).exc # NoExc THEN InvalidTags
  ELSE IF fields.due # Missing /\ _validate_date(fields.due).exc # NoExc THEN InvalidDate
  ELSE NoExc

\* C5 amended: update_task with a field that fails validation raises (for a
\* blank title EmptyTitle) and writes nothing when a task with that id is
\* in the store; when no task has that id it returns false without raising
\* or writing, the fields not being validated.
C5_UpdateValidatesWhenFound ==
  \A task_id \in IdInputs(file), fields \in FieldInputs :
    \A tagOrder \in TagOrders(fields.tags) :
      LET r == update_task(file, task_id, fields, tagOrder) IN
      (Readable(file) /\ ~ValidFields(fields)) =>
        /\ ~r.write
        /\ Effect(file, r) = file
        /\ IF task_id \in Ids(file.tasks)
             THEN r.exc = FirstError(fields)
             ELSE r.exc = NoExc /\ r.retb = FALSE

\* An update with a failing field returned false: no task had the id.
C5_Witness ==
  /\ last.op = "update"
  /\ ~last.argsok
  /\ last.exc = NoExc
  /\ last.retb = FALSE
  /\ file.kind = "json"
  /\ file.tasks # <<>>

C7_AddValidatesFirst ==
  /\ \A title \in TitleInputs, tags \in TagInputs, due \in DueInputs :
       \A tagOrder \in TagOrders(tags) :
         LET r == add_task(file, title, tags, due, tagOrder, now) IN
         ~ValidAdd(title, tags, due) =>
           /\ r.exc \in ValidationErrors
           /\ IsBlank(title) => r.exc = EmptyTitle
           /\ (~IsBlank(title) /\ _validate_date(due).exc # NoExc) => r.exc = InvalidDate
           /\ r.reads = 0
           /\ ~r.write
           /\ Effect(file, r) = file
  /\ (last.op = "add" /\ ~last.argsok) =>
       last.exc \in ValidationErrors /\ last.reads = 0 /\ ~last.wrote

\* add_task raised its date error on a file of malformed JSON.
C7_Witness ==
  /\ last.op = "add"
  /\ last.exc = InvalidDate
  /\ file = Garbage

\* C8 as stated: on a store file that exists with zero bytes, add_task and
\* the calls after it succeed; no valid call raises on such a file.
C8_EmptyFileCallsSucceed ==
  (file.kind = "empty" /\ last.op # "init" /\ last.argsok) => last.exc = NoExc

\* C9: when two calls on one path both read the file before either writes,
\* the file after both have returned holds only the collection the later
\* writer wrote, and the earlier writer's change is lost although both
\* calls reported success.
C9_LastWriterWins ==
  \A p, q \in Procs :
    ( /\ p # q
      /\ procs[p].pc = "done" /\ procs[q].pc = "done"
      /\ procs[p].res.write /\ procs[q].res.write
      /\ procs[p].began = 0 /\ procs[q].began = 0
      /\ \A r \in Procs : procs[r].pc # "write"
      /\ commits # <<>>
      /\ commits[Len(commits)] = p )
    => /\ procs[p].res.exc = NoExc
       /\ procs[q].res.exc = NoExc
       /\ file = Json(procs[p].res.mem)
       /\ (procs[p].op = "add" /\ procs[q].op = "add") =>
            /\ procs[q].res.rett[1] \notin SeqRange(file.tasks)
            /\ procs[p].res.rett[1] \in SeqRange(file.tasks)
            /\ procs[p].res.rett[1].id = procs[q].res.rett[1].id

\* Two add_task calls both read the installed store before either wrote,
\* and both have written.
C9_Witness ==
  \E p, q \in Procs :
    /\ p # q
    /\ procs[p].op = "add" /\ procs[q].op = "add"
    /\ procs[p].pc = "done" /\ procs[q].pc = "done"
    /\ procs[p].began = 0 /\ procs[q].began = 0
    /\ commits = <<q, p>>
    /\ Len(file.tasks) = 3

\* C10: list_tasks never writes: for every status, tags, due_before and
\* sort_by, valid or not, the file after the call is the file before it,
\* and an absent file is not created.
C10_ListNeverWrites ==
  /\ \A status \in StatusInputs, tags \in TagFilterInputs,
        due_before \in DueBeforeInputs, sort_by \in SortInputs :
       LET r == list_tasks(file, status, tags, due_before, sort_by) IN
       ~r.write /\ Effect(file, r) = file
  /\ last.op = "list" => ~last.wrote

\* list_tasks returned from a store whose file order is not the order it
\* returns.
C10_Witness ==
  /\ last.op = "list"
  /\ last.exc = NoExc
  /\ file.kind = "json"
  /\ Len(file.tasks) >= 2
  /\ SortTasks("due", file.tasks) # file.tasks

\* Number of positions of the list s that hold t.
Count(s, t) == Cardinality({i \in 1..Len(s) : s[i] = t})

\* The filters of a list_tasks call as stated: status, any-of tags, and a
\* due date present and not after due_before (dates compared as strings).
PassesFilters(task, status, tags, due_before) ==
  /\ status = "open" => ~task.done
  /\ status = "done" => task.done
  /\ tags # <<>> =>
       \E i \in 1..Len(tags) : \E j \in 1..Len(task.tags) : tags[i] = task.tags[j]
  /\ (due_before # PyNone /\ due_before # DueEmpty) =>
       /\ task.due # PyNone
       /\ ~StrLess(due_before.v, task.due.v)

PrimaryEqual(sort_by, a, b) ==
  IF sort_by = "due" THEN a.due = b.due
  ELSE IF sort_by = "created" THEN a.created_at = b.created_at
  ELSE lower(a.title) = lower(b.title)

PrimaryBefore(sort_by, a, b) ==
  IF sort_by = "due" THEN
    \/ a.due # PyNone /\ b.due = PyNone
    \/ a.due # PyNone /\ b.due # PyNone /\ StrLess(a.due.v, b.due.v)
  ELSE IF sort_by = "created" THEN a.created_at < b.created_at
  ELSE StrLess(lower(a.title), lower(b.title))

\* C12: for every sort_by the list returned is ordered by the primary key
\* (due: dated tasks first, ascending by date string; created: ascending
\* created_at; title: ascending lower-cased title) and any two tasks with
\* equal primary key appear in ascending id order, whatever the file order.
C12_ListSorted ==
  \A status \in StatusInputs, tags \in ListTagFilters,
     due_before \in ListDueBefore, sort_by \in SortInputs :
    ValidList(status, due_before, sort_by) =>
      LET out == list_tasks(file, status, tags, due_before, sort_by).rett IN
      \A i, j \in 1..Len(out) :
        i < j =>
          \/ PrimaryBefore(sort_by, out[i], out[j])
          \/ PrimaryEqual(sort_by, out[i], out[j]) /\ out[i].id < out[j].id

\* list_tasks returned from a store that holds, in descending id order, two
\* tasks with titles equal up to case and two with the same creation time.
C12_Witness ==
  /\ last.op = "list"
  /\ last.exc = NoExc
  /\ \E i, j \in 1..Len(file.tasks) :
       /\ i < j
       /\ file.tasks[i].id > file.tasks[j].id
       /\ lower(file.tasks[i].title) = lower(file.tasks[j].title)
       /\ file.tasks[i].created_at = file.tasks[j].created_at

\* A call that wrote is followed by a read that sees exactly what it wrote.
ReadsBack(f, r) ==
  r.write => _read_tasks(Effect(f, r)) = [exc |-> NoExc, tasks |-> r.mem]

\* C13: after add_task returns a task, a list_tasks call with no filters
\* contains a task equal to the returned one in every field, and the next
\* read after any call that wrote sees the complete list that call wrote.
C13_ReadAfterWrite ==
  /\ \A title \in TitleInputs, tags \in TagInputs, due \in DueInputs :
       \A tagOrder \in TagOrders(tags) :
         LET r == add_task(file, title, tags, due, tagOrder, now) IN
         r.exc = NoExc =>
           LET l == list_tasks(Effect(file, r), "None", <<>>, PyNone, "due") IN
           /\ l.exc = NoExc
           /\ \E i \in 1..Len(l.rett) : l.rett[i] = r.rett[1]
           /\ ReadsBack(file, r)
  /\ \A task_id \in IdInputs(file) :
       /\ ReadsBack(file, complete_task(file, task_id))
       /\ ReadsBack(file, delete_task(file, task_id))
       /\ \A fields \in UpdateCalls : \A tagOrder \in TagOrders(fields.tags) :
            ReadsBack(file, update_task(file, task_id, fields, tagOrder))

\* add_task has returned a task built from a padded title and the store
\* already held another task.
C13_Witness ==
  /\ last.op = "add"
  /\ last.exc = NoExc
  /\ Len(file.tasks) >= 2
  /\ file.tasks[Len(file.tasks)].title = <<"a">>

\* A title as the store must hold it: non-empty, no space at either end.
Trimmed(s) == s # <<>> /\ s[1] # " " /\ s[Len(s)] # " "

\* The trimmed form of a non-blank string: what lies between its first and
\* its last character that is not a space.
TrimOf(s) ==
  LET a == CHOOSE i \in 1..Len(s) : s[i] # " " /\ \A k \in 1..(i - 1) : s[k] = " "
      b == CHOOSE j \in 1..Len(s) : s[j] # " " /\ \A k \in (j + 1)..Len(s) : s[k] = " "
  IN  SubSeq(s, a, b)

\* update_task calls that differ in the title they pass.
TitleFields ==
  [title : {Missing, TitleEmpty, TitleBlank, TitlePadded, TitleB},
   tags : {Missing, TagsList},
   due : {Missing}]

\* The titles of a list of tasks, in order.
Titles(tasks) == [i \in 1..Len(tasks) |-> tasks[i].title]

\* C14: every stored title is non-empty and has no leading or trailing
\* whitespace; a successful add_task stores the trimmed form of the title it
\* was given, a successful update_task with a title stores the trimmed form
\* of that title in the task it names, and no call changes another title.
C14_StoredTitlesTrimmed ==
  /\ \A i \in 1..Len(file.tasks) : Trimmed(file.tasks[i].title)
  /\ \A title \in TitleInputs, tags \in TagInputs, due \in DueInputs :
       \A tagOrder \in TagOrders(tags) :
         LET r == add_task(file, title, tags, due, tagOrder, now) IN
         r.exc = NoExc =>
           Titles(r.mem) = Append(Titles(_read_tasks(file).tasks), TrimOf(title.v))
  /\ \A task_id \in IdInputs(file) :
       /\ LET r == complete_task(file, task_id) IN
          r.write => Titles(r.mem) = Titles(file.tasks)
       /\ \A fields \in TitleFields : \A tagOrder \in TagOrders(fields.tags) :
            LET r == update_task(file, task_id, fields, tagOrder)
                k == FirstIndex(file.tasks, task_id) IN
            r.write =>
              Titles(r.mem) =
                IF fields.title = Missing THEN Titles(file.tasks)
                ELSE [Titles(file.tasks) EXCEPT ![k] = TrimOf(fields.title.v)]

\* add_task has stored the trimmed form of a padded title in a new task and
\* update_task has then given a stored task the title "B".
C14_Witness ==
  /\ last.op = "update"
  /\ last.wrote
  /\ \E i, j \in 1..Len(file.tasks) :
       /\ file.tasks[i].id > 2
       /\ file.tasks[i].title = <<"a">>
       /\ file.tasks[j].title = <<"B">>
       /\ file.tasks[j].tags = << <<"y">> >>

\* Whether the transaction is one apply refuses on an account whose
\* balance is the given one.
Refused(tx, balance) ==
  \/ tx.type \notin {"deposit", "withdraw"}
  \/ tx.type = "withdraw" /\ tx.amount > balance

\* Deposits minus withdrawals among the first n transactions of txns.
RECURSIVE SignedSum(_, _)
SignedSum(txns, n) ==
  IF n = 0 THEN 0
  ELSE SignedSum(txns, n - 1) +
       (IF txns[n].type = "deposit" THEN txns[n].amount ELSE 0 - txns[n].amount)

\* The number of leading transactions of txns that an account with the
\* given balance accepts one after the other.
Accepted(txns, balance) ==
  CHOOSE k \in 0..Len(txns) :
    /\ \A i \in 1..k : ~Refused(txns[i], balance + SignedSum(txns, i - 1))
    /\ k < Len(txns) => Refused(txns[k + 1], balance + SignedSum(txns, k))

\* C19: apply_all is fail-fast: with k the number of leading transactions
\* that are acceptable in turn, the account afterwards holds exactly those
\* k transactions more in its history and their sum more in its balance,
\* and the call raises ValueError exactly when k is less than the length of
\* the list.
C19_ApplyAllFailFast ==
  ledger.op = "apply_all" =>
    LET k == Accepted(ledger.txns, ledger.before.balance) IN
    /\ account._transactions = ledger.before._transactions \o SubSeq(ledger.txns, 1, k)
    /\ account.balance = ledger.before.balance + SignedSum(ledger.txns, k)
    /\ account.initial_balance = ledger.before.initial_balance
    /\ (ledger.exc # NoExc) = (k < Len(ledger.txns))
    /\ ledger.exc \in {NoExc, TransactionFailed(InvalidType),
                       TransactionFailed(InsufficientFunds)}

\* apply_all has raised at the second of two transactions after applying
\* the first.
C19_Witness ==
  /\ ledger.op = "apply_all"
  /\ ledger.exc = TransactionFailed(InsufficientFunds)
  /\ Len(ledger.txns) = 2
  /\ Len(account._transactions) = Len(ledger.before._transactions) + 1

\* C20: statement() has one entry per applied transaction, numbered 1..n
\* in the order applied, the balance_after of entry i is the initial
\* balance plus deposits minus withdrawals among the first i applied
\* transactions, and the last balance_after equals account.balance.
C20_StatementReplaysHistory ==
  LET stmt == statement(account)
      n == Len(account._transactions) IN
  /\ Len(stmt) = n
  /\ \A i \in 1..n :
       /\ stmt[i].index = i
       /\ stmt[i].type = account._transactions[i].type
       /\ stmt[i].amount = account._transactions[i].amount
       /\ stmt[i].note = account._transactions[i].note
       /\ stmt[i].balance_after =
            account.initial_balance + SignedSum(account._transactions, i)
  /\ n > 0 => stmt[n].balance_after = account.balance
  /\ ledger.op = "statement" => ledger.stmt = stmt
  /\ ledger.op \in {"apply", "apply_all"} =>
       /\ ledger.exc = NoExc =>
            account._transactions = ledger.before._transactions \o ledger.txns
       /\ \E k \in 0..Len(ledger.txns) :
            account._transactions = ledger.before._transactions \o SubSeq(ledger.txns, 1, k)

\* statement() was called on an account that has applied a deposit and a
\* withdrawal and has refused nothing since.
C20_Witness ==
  /\ ledger.op = "statement"
  /\ Len(ledger.stmt) = 2
  /\ \E i, j \in 1..2 : ledger.stmt[i].type = "deposit" /\ ledger.stmt[j].type = "withdraw"
  /\ ledger.stmt[2].balance_after # account.initial_balance

\* A string in the fixed format YYYY-MM-DD, zero-padded, naming a calendar
\* date.
IsPaddedDate(s) ==
  /\ Len(s) = 10
  /\ s[5] = "-" /\ s[8] = "-"
  /\ \A i \in {1, 2, 3, 4, 6, 7, 9, 10} : s[i] \in Digits
  /\ NumVal(SubSeq(s, 1, 4)) >= 1
  /\ NumVal(SubSeq(s, 6, 7)) \in 1..12
  /\ NumVal(SubSeq(s, 9, 10)) \in
       1..DaysInMonth(NumVal(SubSeq(s, 1, 4)), NumVal(SubSeq(s, 6, 7)))

\* C15: every stored due is absent or a zero-padded YYYY-MM-DD string that
\* names a calendar date (_validate_date refusing every other string).
C15_StoredDuePadded ==
  \A i \in 1..Len(file.tasks) :
    file.tasks[i].due = PyNone \/ IsPaddedDate(file.tasks[i].due.v)

\* C16: no tag that _validate_tags returned, and add_task or update_task
\* stored, is empty or whitespace-only.
C16_NoBlankTag ==
  \A i \in 1..Len(file.tasks) :
    \A j \in 1..Len(file.tasks[i].tags) : strip(file.tasks[i].tags[j]) # <<>>

\* The entries of l without those equal to an earlier one, order kept.
RECURSIVE FirstSeen(_)
FirstSeen(l) ==
  IF l = <<>> THEN <<>>
  ELSE LET front == SubSeq(l, 1, Len(l) - 1)
           x == l[Len(l)] IN
       IF \E i \in 1..Len(front) : front[i] = x THEN FirstSeen(front)
       ELSE Append(FirstSeen(front), x)

\* C17: the tags stored for a task are the non-empty entries of some tags
\* argument in the order of their first occurrence.
C17_TagsInFirstSeenOrder ==
  \A i \in 1..Len(file.tasks) :
    \E c \in FieldCalls :
      /\ _validate_tags(c.tags).exc = NoExc
      /\ file.tasks[i].tags = FirstSeen(NonEmptyTags(SplitTags(c.tags)))

\* The keyword arguments of the call name none of title, tags and due.
OnlyOtherKeys(fields) ==
  fields.title = Missing /\ fields.tags = Missing /\ fields.due = Missing

\* C18: a complete_task or update_task call leaves the number of stored
\* tasks and the id and created_at of each as they were, also when
\* update_task is passed id, created_at or done; an update_task call that
\* passes only such keywords leaves every field of every task as it was.
C18_IdCreatedAtImmutable ==
  [][/\ last'.op \in {"complete", "update"} =>
          /\ Len(file'.tasks) = Len(file.tasks)
          /\ \A i \in 1..Len(file.tasks) :
               /\ file'.tasks[i].id = file.tasks[i].id
               /\ file'.tasks[i].created_at = file.tasks[i].created_at
     /\ \A task_id \in IdInputs(file), fields \in KwFields :
          LET r == update_task(file, task_id, fields, <<>>) IN
          (r.write /\ OnlyOtherKeys(fields)) => r.mem = file.tasks]_vars

\* update_task, passed created_at and done, has written a store that holds
\* a task created by add_task and a task completed since.
C18_Witness ==
  /\ last.op = "update"
  /\ last.wrote
  /\ \E i, j \in 1..Len(file.tasks) :
       /\ file.tasks[i].id > 2
       /\ file.tasks[j].id = 1
       /\ file.tasks[j].done

\* C22: complete_task on an id present in the store returns true and the
\* file afterwards holds the same tasks in the same order, the task with
\* that id having done = true and every other field as before; when that
\* task was already done the file holds what it held.
C22_CompleteChangesOnlyDone ==
  \A task_id \in Ids(file.tasks) :
    LET r == complete_task(file, task_id)
        before == file.tasks
        after == _read_tasks(Effect(file, r)).tasks IN
    /\ r.exc = NoExc
    /\ r.retb
    /\ Len(after) = Len(before)
    /\ \A i \in 1..Len(before) :
         after[i] = IF before[i].id = task_id THEN [before[i] EXCEPT !.done = TRUE]
                    ELSE before[i]
    /\ (\A i \in 1..Len(before) : before[i].id = task_id => before[i].done) =>
         after = before

\* complete_task has returned true on a store that holds a done task and a
\* task that is still open.
C22_Witness ==
  /\ last.op = "complete"
  /\ last.retb
  /\ \E i, j \in 1..Len(file.tasks) : file.tasks[i].done /\ ~file.tasks[j].done

\* C23: delete_task on an id present in a store with unique ids returns
\* true and the file afterwards is the previous sequence without the task
\* of that id: one task fewer, the others unchanged and in their order.
C23_DeleteRemovesOne ==
  \A task_id \in Ids(file.tasks) :
    LET r == delete_task(file, task_id)
        before == file.tasks
        after == _read_tasks(Effect(file, r)).tasks IN
    /\ r.exc = NoExc
    /\ r.retb
    /\ Len(after) = Len(before) - 1
    /\ after = SelectSeq(before, LAMBDA task : task.id # task_id)
    /\ task_id \notin Ids(after)

\* delete_task has returned true and left two tasks of the three the store
\* held.
C23_Witness ==
  /\ last.op = "delete"
  /\ last.retb
  /\ Len(file.tasks) = 2
  /\ nops = 1

\* C24: every stored tags list contains no empty-string entry and no two
\* equal entries, whatever strings, lists or omitted tags add_task and
\* update_task were given.
C24_TagsDistinctNonEmpty ==
  \A i \in 1..Len(file.tasks) :
    LET tags == file.tasks[i].tags IN
    /\ \A j \in 1..Len(tags) : tags[j] # <<>>
    /\ \A j, k \in 1..Len(tags) : tags[j] = tags[k] => j = k

\* update_task has written a store holding a task whose tags came from a
\* string with an empty and a repeated piece and a task whose tags came
\* from a list with an empty and a repeated entry.
C24_Witness ==
  /\ last.op = "update"
  /\ last.wrote
  /\ \E i, j \in 1..Len(file.tasks) :
       /\ SeqRange(file.tasks[i].tags) = {<<"x">>, <<"y">>}
       /\ file.tasks[j].tags = << <<"y">> >>

\* C25: an apply call raises exactly when the transaction has a type other
\* than deposit and withdraw or is a withdrawal of more than the balance,
\* and then balance, history and statement() are what they were before the
\* call; a withdrawal of exactly the balance succeeds and leaves balance 0.
C25_RefusedApplyChangesNothing ==
  ledger.op = "apply" =>
    LET tx == ledger.txns[1] IN
    /\ (ledger.exc # NoExc) = Refused(tx, ledger.before.balance)
    /\ ledger.exc # NoExc =>
         /\ account = ledger.before
         /\ statement(account) = statement(ledger.before)
         /\ ledger.exc \in {InvalidType, InsufficientFunds}
    /\ (tx.type = "withdraw" /\ tx.amount = ledger.before.balance) =>
         /\ ledger.exc = NoExc
         /\ account.balance = 0
         /\ account._transactions = Append(ledger.before._transactions, tx)

\* apply has refused a withdrawal on an account that an earlier withdrawal
\* of its whole balance had left at 0.
C25_Witness ==
  /\ ledger.op = "apply"
  /\ ledger.exc = InsufficientFunds
  /\ account.balance = 0
  /\ Len(account._transactions) = 1
  /\ account._transactions[1].type = "withdraw"
  /\ account._transactions[1].amount = 100

\* C26: for an account opened with a non-negative balance, balance and
\* every balance_after of statement() are greater than or equal to 0 after
\* any apply and apply_all calls.
C26_NeverOverdrawn ==
  /\ account.balance >= 0
  /\ \A i \in 1..Len(statement(account)) : statement(account)[i].balance_after >= 0

\* The position of caller p's write among the writes made so far.
CommitIndex(p) == CHOOSE i \in 1..Len(commits) : commits[i] = p

\* Caller p's delete_task has returned true.
Deleted(p) ==
  /\ procs[p].op = "delete"
  /\ procs[p].pc = "done"
  /\ procs[p].res.retb

\* An add_task that began after p's delete wrote has created the id again.
AddedAgain(p) ==
  \E q \in Procs :
    /\ procs[q].op = "add"
    /\ procs[q].pc = "done"
    /\ procs[q].res.write
    /\ procs[q].began >= CommitIndex(p)
    /\ procs[q].res.rett[1].id = procs[p].task_id

\* A call that read the file before p's delete wrote has written after it.
StaleWriteAfter(p) ==
  \E q \in Procs :
    /\ q # p
    /\ procs[q].pc = "done"
    /\ procs[q].res.write
    /\ procs[q].began < CommitIndex(p)
    /\ CommitIndex(q) > CommitIndex(p)

CellOf(header, cells, field) ==
  LET i == Column(header, field) IN
  IF i = 0 \/ i > Len(cells) THEN <<>> ELSE cells[i]

\* A data row that must be loaded: its category is not blank and its amount
\* is a number greater than 0.
ValidRow(header, cells) ==
  /\ strip(CellOf(header, cells, <<"category">>)) # <<>>
  /\ LET t == strip(CellOf(header, cells, <<"amount">>)) IN
     IsNumber(t) /\ t[1] # "-" /\ NumVal(t) > 0

\* C21: load_expenses returns (expenses, skipped) for every readable CSV
\* with a header: len(expenses) + skipped is the number of data rows, and
\* expenses holds exactly the rows whose category is non-blank and whose
\* amount parses to a number greater than 0.
C21_SkipsInvalidRows ==
  loaded.op = "load" =>
    /\ loaded.exc = NoExc
    /\ Len(loaded.expenses) + loaded.skipped = Len(csvfile.rows)
    /\ Len(loaded.expenses) =
         Cardinality({i \in 1..Len(csvfile.rows) : ValidRow(csvfile.header, csvfile.rows[i])})

====
